---------------------------- MODULE Spec2Model ----------------------------
(* Switch_Swapout_Checker: the two report builders and their helpers.      *)
(*                                                                         *)
(* A Python str is modelled as a sequence of one-character strings, so     *)
(* that startswith, "in", strip, split, splitlines and join are computed   *)
(* character by character, as the interpreter computes them.               *)
EXTENDS Integers, Sequences, FiniteSets, TLC

VARIABLES
    pc,                \* position in the function under execution
    interface,         \* normalize_interface_name: the argument
    normalized,        \* normalize_interface_name(interface)
    renormalized,      \* normalize_interface_name(normalized)
    raw_output,        \* merge_wrapped_lines / process_cdp_neighbors: the argument
    merged_lines,      \* the logical lines
    top_line,          \* process_cdp_neighbors locals
    bottom_lines,
    main_lines,
    sav_switches,
    uplinks,
    waps,
    phone_handsets,
    unsorted,
    raw_mac_output,    \* process_mac_address_table: the arguments
    raw_trunk_output,  \* get_trunk_interfaces / process_mac_address_table
    trunk_interfaces,  \* process_mac_address_table locals
    trunk_check_set,
    data_lines,
    local_macs,
    remote_macs,
    output_sections,   \* both builders: the list joined into the report
    report,            \* both builders: the returned text
    fields_filled,     \* run_commands: hostname, username and password all given
    use_ssh_value,     \* run_commands: the "Use SSH" checkbox
    device,            \* run_commands: device['device_type']
    net_connect,       \* the session: "none", "connected" or "disconnected"
    command_index,     \* run_commands: position in commands
    responses,         \* raw texts received for the current command
    output,            \* run_commands: the text about to be written
    device_log,        \* the command strings the switch has received, in order
    file_system,       \* the files under the output directory: name -> content
    output_files,      \* run_commands: names of the files written
    exception,         \* the exception being propagated, or "none"
    messagebox         \* the dialog shown to the user, or "none"

normVars == <<interface, normalized, renormalized>>
cdpVars == <<raw_output, merged_lines, top_line, bottom_lines, main_lines,
             sav_switches, uplinks, waps, phone_handsets, unsorted>>
macVars == <<raw_mac_output, raw_trunk_output, trunk_interfaces,
             trunk_check_set, data_lines, local_macs, remote_macs>>
outVars == <<output_sections, report>>
runVars == <<fields_filled, use_ssh_value, device, net_connect, command_index,
             responses, output, device_log, file_system, output_files,
             exception, messagebox>>
vars == <<pc, normVars, runVars, cdpVars, macVars, outVars>>

\* Python's None (top_line before any "Total cdp entries displayed" line).
None == <<"None">>

----------------------------------------------------------------------------
(* Bounds of the model.                                                    *)

\* Longest digit/slash suffix of an interface identifier.
MaxSuffixLen == 2
\* Longest raw text handed to the module-level merge_wrapped_lines.
MaxRawLen == 5
\* Most physical lines of a "show cdp neighbors" output.
MaxCdpLines == 3
\* Most physical lines of a "show int trunk" output.
MaxTrunkLines == 3
\* Most physical lines of a "show mac address-table" output.
MaxMacLines == 3

----------------------------------------------------------------------------
(* The str methods the source calls.                                       *)

SetMin(S) == CHOOSE x \in S : \A y \in S : x <= y
SetMax(S) == CHOOSE x \in S : \A y \in S : y <= x

\* str.isspace() on one character; the line boundary "\n" is whitespace too.
isspace(c) == c \in {" ", "\t", "\n"}

\* str.strip(): without leading and trailing whitespace.
strip(s) ==
    LET idx == {i \in 1..Len(s) : ~isspace(s[i])}
    IN  IF idx = {} THEN <<>> ELSE SubSeq(s, SetMin(idx), SetMax(idx))

\* str.startswith(prefix)
startswith(s, prefix) ==
    /\ Len(prefix) <= Len(s)
    /\ SubSeq(s, 1, Len(prefix)) = prefix

\* "keyword in line": substring test, case-sensitive.
contains(keyword, line) ==
    \E i \in 0..(Len(line) - Len(keyword)) :
        SubSeq(line, i + 1, i + Len(keyword)) = keyword

\* any(keyword in line for keyword in keywords)
any_in(keywords, line) ==
    \E k \in 1..Len(keywords) : contains(keywords[k], line)

\* str.splitlines(): the text between line boundaries; a final boundary
\* opens no further line.
RECURSIVE splitlines(_)
splitlines(s) ==
    IF s = <<>> THEN <<>>
    ELSE LET nl == {i \in 1..Len(s) : s[i] = "\n"}
         IN  IF nl = {} THEN <<s>>
             ELSE <<SubSeq(s, 1, SetMin(nl) - 1)>>
                      \o splitlines(SubSeq(s, SetMin(nl) + 1, Len(s)))

\* str.split(): the maximal runs of non-whitespace characters.
RECURSIVE split(_)
split(s) ==
    LET idx == {i \in 1..Len(s) : ~isspace(s[i])}
    IN  IF idx = {} THEN <<>>
        ELSE LET first == SetMin(idx)
                 sp == {i \in first..Len(s) : isspace(s[i])}
                 last == IF sp = {} THEN Len(s) ELSE SetMin(sp) - 1
             IN  <<SubSeq(s, first, last)>> \o split(SubSeq(s, last + 1, Len(s)))

\* sep.join(items)
RECURSIVE join(_, _)
join(sep, items) ==
    IF items = <<>> THEN <<>>
    ELSE IF Len(items) = 1 THEN items[1]
    ELSE items[1] \o sep \o join(sep, Tail(items))

\* f"{n}" for a length: the decimal digits of n.
Digits == <<"0", "1", "2", "3", "4", "5", "6", "7", "8", "9">>
RECURSIVE format_int(_)
format_int(n) ==
    IF n < 10 THEN <<Digits[n + 1]>>
    ELSE format_int(n \div 10) \o <<Digits[(n % 10) + 1]>>

\* All sequences over alphabet of length at most n.
SeqsUpTo(alphabet, n) == UNION {[1..k -> alphabet] : k \in 0..n}

----------------------------------------------------------------------------
(* process_mac_address_table.py: normalize_interface_name                  *)

mapping == <<
    <<<<"P","o">>, <<"P","o","r","t","-","c","h","a","n","n","e","l">>>>,
    <<<<"G","i">>, <<"G","i","g","a","b","i","t","E","t","h","e","r","n","e","t">>>>,
    <<<<"T","e">>, <<"T","e","n","G","i","g","a","b","i","t","E","t","h","e","r","n","e","t">>>>,
    <<<<"F","a">>, <<"F","a","s","t","E","t","h","e","r","n","e","t">>>> >>

\* for prefix, full_name in mapping.items(): the pairs from index k on.
RECURSIVE normalize_from(_, _)
normalize_from(intf, k) ==
    IF k > Len(mapping) THEN intf
    ELSE IF startswith(intf, mapping[k][1])
         THEN mapping[k][2] \o SubSeq(intf, Len(mapping[k][1]) + 1, Len(intf))
         ELSE normalize_from(intf, k + 1)

normalize_interface_name(intf) == normalize_from(intf, 1)

\* Identifiers handed to the normalizer: abbreviated, canonical and unknown
\* prefixes, each followed by a unit/port suffix.
InterfacePrefixes ==
    { <<"P","o">>, <<"G","i">>, <<"T","e">>, <<"F","a">>,
      <<"P","o","r","t","-","c","h","a","n","n","e","l">>, <<"G","i","g","a","b","i","t","E","t","h","e","r","n","e","t">>, <<"T","e","n","G","i","g","a","b","i","t","E","t","h","e","r","n","e","t">>, <<"F","a","s","t","E","t","h","e","r","n","e","t">>,
      <<"V","l","a","n">>, <<"p","o">>, <<"P">>, <<>> }
InterfaceInputs ==
    { p \o s : p \in InterfacePrefixes, s \in SeqsUpTo({"1", "/"}, MaxSuffixLen) }

IdleNorm == interface = <<>> /\ normalized = <<>> /\ renormalized = <<>>
IdleCdp ==
    /\ raw_output = <<>> /\ merged_lines = <<>> /\ top_line = None
    /\ bottom_lines = <<>> /\ main_lines = <<>> /\ sav_switches = <<>>
    /\ uplinks = <<>> /\ waps = <<>> /\ phone_handsets = <<>> /\ unsorted = <<>>
IdleMac ==
    /\ raw_mac_output = <<>> /\ raw_trunk_output = <<>>
    /\ trunk_interfaces = <<>> /\ trunk_check_set = {} /\ data_lines = <<>>
    /\ local_macs = <<>> /\ remote_macs = <<>>
IdleOut == output_sections = <<>> /\ report = <<>>
IdleRun ==
    /\ fields_filled = FALSE /\ use_ssh_value = FALSE /\ device = "none"
    /\ net_connect = "none" /\ command_index = 0 /\ responses = <<>>
    /\ output = <<>> /\ device_log = <<>> /\ file_system = <<>>
    /\ output_files = <<>> /\ exception = "none" /\ messagebox = "none"

InitNorm ==
    /\ pc = "norm_start"
    /\ interface \in InterfaceInputs
    /\ normalized = <<>> /\ renormalized = <<>>
    /\ IdleCdp /\ IdleMac /\ IdleOut /\ IdleRun

\* normalize_interface_name(interface)
Normalize ==
    /\ pc = "norm_start"
    /\ normalized' = normalize_interface_name(interface)
    /\ pc' = "norm_once"
    /\ UNCHANGED <<interface, renormalized, cdpVars, macVars, outVars, runVars>>

\* normalize_interface_name applied to its own result
NormalizeAgain ==
    /\ pc = "norm_once"
    /\ renormalized' = normalize_interface_name(normalized)
    /\ pc' = "norm_twice"
    /\ UNCHANGED <<interface, normalized, cdpVars, macVars, outVars, runVars>>

NextNorm == Normalize \/ NormalizeAgain
SpecNorm == InitNorm /\ [][NextNorm]_vars

\* An identifier already in canonical long form.
IsCanonical(intf) == \E k \in 1..Len(mapping) : startswith(intf, mapping[k][2])
\* An identifier that begins with none of the abbreviations.
HasKnownPrefix(intf) == \E k \in 1..Len(mapping) : startswith(intf, mapping[k][1])

\* C2: normalize_interface_name returns an already-canonical identifier and
\* an identifier with no known prefix unchanged, and so normalizing twice
\* gives the same result as normalizing once.
C2_NormalizeFixesCanonical ==
    /\ (pc \in {"norm_once", "norm_twice"}
            /\ (IsCanonical(interface) \/ ~HasKnownPrefix(interface)))
        => normalized = interface
    /\ pc = "norm_twice" => renormalized = normalized

----------------------------------------------------------------------------
(* process_cdp_neighbors.py: merge_wrapped_lines (module level)            *)

\* for line in raw_output.splitlines(): the lines from index i on, then the
\* final flush.
RECURSIVE merge_from(_, _, _, _)
merge_from(lines, i, current_line, merged) ==
    IF i > Len(lines)
    THEN IF current_line # <<>> THEN Append(merged, current_line) ELSE merged
    ELSE LET line == lines[i]
         IN  IF strip(line) = <<>>
             THEN merge_from(lines, i + 1, current_line, merged)
             ELSE IF isspace(line[1])
             THEN merge_from(lines, i + 1,
                             current_line \o <<" ">> \o strip(line), merged)
             ELSE merge_from(lines, i + 1, strip(line),
                             IF current_line # <<>>
                             THEN Append(merged, current_line) ELSE merged)

merge_wrapped_lines(raw) == merge_from(splitlines(raw), 1, <<>>, <<>>)

MergeAlphabet == {"\n", " ", "a", "b"}

InitMerge ==
    /\ pc = "merge_start"
    /\ raw_output \in SeqsUpTo(MergeAlphabet, MaxRawLen)
    /\ merged_lines = <<>> /\ top_line = None
    /\ bottom_lines = <<>> /\ main_lines = <<>> /\ sav_switches = <<>>
    /\ uplinks = <<>> /\ waps = <<>> /\ phone_handsets = <<>> /\ unsorted = <<>>
    /\ IdleNorm /\ IdleMac /\ IdleOut /\ IdleRun

\* merge_wrapped_lines(raw_output)
MergeWrappedLines ==
    /\ pc = "merge_start"
    /\ merged_lines' = merge_wrapped_lines(raw_output)
    /\ pc' = "merge_done"
    /\ UNCHANGED <<raw_output, top_line, bottom_lines, main_lines, sav_switches,
                   uplinks, waps, phone_handsets, unsorted,
                   normVars, runVars, macVars, outVars>>

NextMerge == MergeWrappedLines
SpecMerge == InitMerge /\ [][NextMerge]_vars

\* The indices of S in increasing order.
RECURSIVE Ascending(_)
Ascending(S) ==
    IF S = {} THEN <<>> ELSE <<SetMin(S)>> \o Ascending(S \ {SetMin(S)})

\* A physical line that opens a logical line: non-blank, first character
\* not whitespace.
IsStartLine(line) == line # <<>> /\ ~isspace(line[1])
\* A continuation line: first character whitespace, not whitespace-only.
IsContinuationLine(line) ==
    line # <<>> /\ isspace(line[1]) /\ \E i \in 1..Len(line) : ~isspace(line[i])

\* The logical line opened by physical line i: its trimmed text, then the
\* trimmed text of the continuation lines that follow it before the next
\* opening line, joined by single spaces.
LogicalLineAt(lines, i) ==
    LET later == {j \in (i + 1)..Len(lines) : IsStartLine(lines[j])}
        stop == IF later = {} THEN Len(lines) + 1 ELSE SetMin(later)
        conts == Ascending({j \in (i + 1)..(stop - 1) : IsContinuationLine(lines[j])})
    IN  join(<<" ">>, <<strip(lines[i])>> \o [k \in 1..Len(conts) |-> strip(lines[conts[k]])])

\* One logical line per opening physical line, in source order.
LogicalLinesOf(lines) ==
    LET starts == Ascending({i \in 1..Len(lines) : IsStartLine(lines[i])})
    IN  [k \in 1..Len(starts) |-> LogicalLineAt(lines, starts[k])]

\* C8: merge_wrapped_lines returns, in source order, exactly one logical
\* line per non-blank physical line whose first character is not
\* whitespace, each the trimmed text of that line followed by the trimmed
\* text of its continuation lines, joined by single spaces.
C8_MergeOneLinePerStart ==
    pc = "merge_done" => merged_lines = LogicalLinesOf(splitlines(raw_output))

----------------------------------------------------------------------------
(* process_cdp_neighbors.py: process_cdp_neighbors                         *)

\* The helper nested in process_cdp_neighbors: its own copy of the loop.
RECURSIVE nested_merge_from(_, _, _, _)
nested_merge_from(lines, i, current_line, merged) ==
    IF i > Len(lines)
    THEN IF current_line # <<>> THEN Append(merged, current_line) ELSE merged
    ELSE LET line == lines[i]
         IN  IF strip(line) = <<>>
             THEN nested_merge_from(lines, i + 1, current_line, merged)
             ELSE IF isspace(line[1])
             THEN nested_merge_from(lines, i + 1,
                                    current_line \o <<" ">> \o strip(line), merged)
             ELSE nested_merge_from(lines, i + 1, strip(line),
                                    IF current_line # <<>>
                                    THEN Append(merged, current_line) ELSE merged)

nested_merge_wrapped_lines(raw) == nested_merge_from(splitlines(raw), 1, <<>>, <<>>)

TotalMarker == <<"T","o","t","a","l"," ","c","d","p"," ","e","n","t","r","i","e","s"," ","d","i","s","p","l","a","y","e","d">>
CapabilityMarker == <<"C","a","p","a","b","i","l","i","t","y"," ","C","o","d","e","s",":">>
DeviceIdMarker == <<"D","e","v","i","c","e"," ","I","D">>

\* "Separate special lines from the main output": the loop from line i on.
RECURSIVE separate_from(_, _, _, _, _)
separate_from(lines, i, top, bottom, main) ==
    IF i > Len(lines) THEN [top_line |-> top, bottom_lines |-> bottom, main_lines |-> main]
    ELSE LET line == lines[i]
         IN  IF startswith(line, TotalMarker)
             THEN separate_from(lines, i + 1, line, bottom, main)
             ELSE IF startswith(line, CapabilityMarker) \/ startswith(line, DeviceIdMarker)
             THEN separate_from(lines, i + 1, top, Append(bottom, line), main)
             ELSE separate_from(lines, i + 1, top, bottom, Append(main, line))

separate_special_lines(lines) == separate_from(lines, 1, None, <<>>, <<>>)

sav_keywords == <<<<"s","a","v","0","1">>, <<"s","a","v","0","2">>, <<"s","a","v","0","3">>, <<"C","B","S","3","5","0">>, <<"S","A","V","0","1">>, <<"S","A","V","0","2">>, <<"S","A","V","0","3">>>>
uplink_keywords == <<<<"L","B","D","S">>, <<"B","D","S">>, <<"S","B","D","S">>, <<"H","D","S">>, <<"C","P","D","S">>>>
wap_models == <<<<"C","9","1","2","0","A","X","I">>, <<"C","9","1","3","0","A">>, <<"C","9","1","2","0","A">>, <<"C","W","9","1","6","6","I">>, <<"A","I","R","-","A","P">>>>
phone_keyword == <<"T","3","3">>

\* The if/elif chain of the classification loop, with WAP models tested
\* before the uplink keywords.
category_of_wap_first(line) ==
    IF any_in(sav_keywords, line) THEN "sav_switches"
    ELSE IF any_in(wap_models, line) THEN "waps"
    ELSE IF any_in(uplink_keywords, line) THEN "uplinks"
    ELSE IF contains(phone_keyword, line) THEN "phone_handsets"
    ELSE "unsorted"

\* The if/elif chain of the classification loop: the list a line is
\* appended to.
category_of(line) ==
    IF any_in(sav_keywords, line) THEN "sav_switches"
    ELSE IF any_in(uplink_keywords, line) THEN "uplinks"
    ELSE IF any_in(wap_models, line) THEN "waps"
    ELSE IF contains(phone_keyword, line) THEN "phone_handsets"
    ELSE "unsorted"

EmptyBuckets ==
    [sav_switches |-> <<>>, uplinks |-> <<>>, waps |-> <<>>,
     phone_handsets |-> <<>>, unsorted |-> <<>>]

\* "Process the main lines into categories": the loop from line i on.
RECURSIVE classify_from(_, _, _)
classify_from(lines, i, buckets) ==
    IF i > Len(lines) THEN buckets
    ELSE LET c == category_of(lines[i])
         IN  classify_from(lines, i + 1,
                           [buckets EXCEPT ![c] = Append(@, lines[i])])

classify_main_lines(lines) == classify_from(lines, 1, EmptyBuckets)

\* "Add top line if present", then two blank lines.
top_section(top) ==
    <<IF top # None /\ top # <<>> THEN top ELSE <<"T","o","t","a","l"," ","c","d","p"," ","e","n","t","r","i","e","s"," ","d","i","s","p","l","a","y","e","d",":"," ","N","/","A">>>>
        \o << <<>>, <<>> >>

\* The WAPs section with the placeholder counted as an entry.
waps_section_counting_placeholder(lines) ==
    LET body == IF lines # <<>> THEN lines ELSE <<<<"N","o"," ","W","A","P"," ","e","n","t","r","i","e","s"," ","f","o","u","n","d",".">>>>
    IN  <<<<"W","A","P","s",":">>>> \o body \o <<<<"T","o","t","a","l"," ","n","u","m","b","e","r"," ","o","f"," ","W","A","P","s",":"," ">> \o format_int(Len(body))>>

\* "WAPs section with count."
waps_section(lines) ==
    <<<<"W","A","P","s",":">>>>
        \o (IF lines # <<>> THEN lines ELSE <<<<"N","o"," ","W","A","P"," ","e","n","t","r","i","e","s"," ","f","o","u","n","d",".">>>>)
        \o <<<<"T","o","t","a","l"," ","n","u","m","b","e","r"," ","o","f"," ","W","A","P","s",":"," ">> \o format_int(Len(lines))>>

\* "Phone Handsets section with count."
phone_section(lines) ==
    <<<<"\n","P","h","o","n","e"," ","H","a","n","d","s","e","t","s",":">>>>
        \o (IF lines # <<>> THEN lines ELSE <<<<"N","o"," ","p","h","o","n","e"," ","h","a","n","d","s","e","t"," ","e","n","t","r","i","e","s"," ","f","o","u","n","d",".">>>>)
        \o <<<<"T","o","t","a","l"," ","n","u","m","b","e","r"," ","o","f"," ","P","h","o","n","e"," ","H","a","n","d","s","e","t","s",":"," ">> \o format_int(Len(lines))>>

\* "sav switches section (no count)."
sav_section(lines) ==
    <<<<"\n","s","a","v"," ","s","w","i","t","c","h","e","s",":">>>>
        \o (IF lines # <<>> THEN lines ELSE <<<<"N","o"," ","s","a","v"," ","s","w","i","t","c","h"," ","e","n","t","r","i","e","s"," ","f","o","u","n","d",".">>>>)

\* "Uplink to distribution layer section (no count)."
uplink_section(lines) ==
    <<<<"\n","u","p","l","i","n","k"," ","t","o"," ","d","i","s","t","r","i","b","u","t","i","o","n"," ","l","a","y","e","r",":">>>>
        \o (IF lines # <<>> THEN lines ELSE <<<<"N","o"," ","u","p","l","i","n","k"," ","e","n","t","r","i","e","s"," ","f","o","u","n","d",".">>>>)

\* "Unsorted section."
unsorted_section(lines) ==
    <<<<"\n","U","n","s","o","r","t","e","d",":">>>>
        \o (IF lines # <<>> THEN lines ELSE <<<<"N","o"," ","u","n","s","o","r","t","e","d"," ","e","n","t","r","i","e","s"," ","f","o","u","n","d",".">>>>)

\* Three blank lines, then "Append bottom special lines."
bottom_section(lines) ==
    << <<>>, <<>>, <<>> >>
        \o (IF lines # <<>> THEN lines ELSE <<<<"N","o"," ","b","o","t","t","o","m"," ","s","p","e","c","i","a","l"," ","l","i","n","e","s"," ","f","o","u","n","d",".">>>>)

\* The output sections with the uplink section put before the sav section.
neighbor_output_sections_uplink_first(top, w, p, s, u, x, bottom) ==
    top_section(top) \o waps_section(w) \o phone_section(p)
        \o uplink_section(u) \o sav_section(s) \o unsorted_section(x)
        \o bottom_section(bottom)

\* "Build the output sections": output_sections before the final join.
neighbor_output_sections(top, w, p, s, u, x, bottom) ==
    top_section(top) \o waps_section(w) \o phone_section(p)
        \o sav_section(s) \o uplink_section(u) \o unsorted_section(x)
        \o bottom_section(bottom)

\* Physical lines of a "show cdp neighbors" output.
CdpPhysicalLines ==
    { <<"T","o","t","a","l"," ","c","d","p"," ","e","n","t","r","i","e","s"," ","d","i","s","p","l","a","y","e","d"," ",":"," ","2">>,
      <<"C","a","p","a","b","i","l","i","t","y"," ","C","o","d","e","s",":"," ","R">>,
      <<"D","e","v","i","c","e"," ","I","D">>,
      <<"s","a","v","0","1"," ","B","D","S"," ","T","3","3">>,
      <<"H","D","S"," ","A","I","R","-","A","P">>,
      <<"C","9","1","2","0","A"," ","T","3","3">>,
      <<"S","E","P"," ","T","3","3">>,
      <<"h","o","s","t"," ","b","d","s">>,
      <<" ","G","i","g"," ","1">>,
      <<>> }

InitCdp ==
    /\ pc = "cdp_start"
    /\ \E lines \in SeqsUpTo(CdpPhysicalLines, MaxCdpLines) :
           raw_output = join(<<"\n">>, lines)
    /\ merged_lines = <<>> /\ top_line = None
    /\ bottom_lines = <<>> /\ main_lines = <<>> /\ sav_switches = <<>>
    /\ uplinks = <<>> /\ waps = <<>> /\ phone_handsets = <<>> /\ unsorted = <<>>
    /\ IdleNorm /\ IdleMac /\ IdleOut /\ IdleRun

\* merged_lines = merge_wrapped_lines(raw_output)
CdpMerge ==
    /\ pc = "cdp_start"
    /\ merged_lines' = nested_merge_wrapped_lines(raw_output)
    /\ pc' = "cdp_merged"
    /\ UNCHANGED <<raw_output, top_line, bottom_lines, main_lines, sav_switches,
                   uplinks, waps, phone_handsets, unsorted,
                   normVars, runVars, macVars, outVars>>

\* the loop over merged_lines
CdpSeparate ==
    /\ pc = "cdp_merged"
    /\ LET r == separate_special_lines(merged_lines)
       IN  /\ top_line' = r.top_line
           /\ bottom_lines' = r.bottom_lines
           /\ main_lines' = r.main_lines
    /\ pc' = "cdp_separated"
    /\ UNCHANGED <<raw_output, merged_lines, sav_switches,
                   uplinks, waps, phone_handsets, unsorted,
                   normVars, runVars, macVars, outVars>>

\* the loop over main_lines
CdpClassify ==
    /\ pc = "cdp_separated"
    /\ LET b == classify_main_lines(main_lines)
       IN  /\ sav_switches' = b.sav_switches
           /\ uplinks' = b.uplinks
           /\ waps' = b.waps
           /\ phone_handsets' = b.phone_handsets
           /\ unsorted' = b.unsorted
    /\ pc' = "cdp_classified"
    /\ UNCHANGED <<raw_output, merged_lines, top_line, bottom_lines, main_lines,
                   normVars, runVars, macVars, outVars>>

\* output_sections, and return "\n".join(output_sections)
CdpAssemble ==
    /\ pc = "cdp_classified"
    /\ output_sections' = neighbor_output_sections(top_line, waps, phone_handsets,
                              sav_switches, uplinks, unsorted, bottom_lines)
    /\ report' = join(<<"\n">>, output_sections')
    /\ pc' = "cdp_done"
    /\ UNCHANGED <<cdpVars, normVars, runVars, macVars>>

NextCdp == CdpMerge \/ CdpSeparate \/ CdpClassify \/ CdpAssemble
SpecCdp == InitCdp /\ [][NextCdp]_vars

----------------------------------------------------------------------------
(* Reading a report back: its lines, and its blocks of non-blank lines.    *)

\* The lines of a text: the text between consecutive "\n".
RECURSIVE LinesOf(_)
LinesOf(text) ==
    LET nl == {i \in 1..Len(text) : text[i] = "\n"}
    IN  IF nl = {} THEN <<text>>
        ELSE <<SubSeq(text, 1, SetMin(nl) - 1)>>
                 \o LinesOf(SubSeq(text, SetMin(nl) + 1, Len(text)))

\* The maximal runs of non-blank lines, in order.
RECURSIVE BlocksFrom(_, _, _, _)
BlocksFrom(lines, i, cur, acc) ==
    IF i > Len(lines) THEN (IF cur # <<>> THEN Append(acc, cur) ELSE acc)
    ELSE IF lines[i] = <<>>
         THEN BlocksFrom(lines, i + 1, <<>>, IF cur # <<>> THEN Append(acc, cur) ELSE acc)
         ELSE BlocksFrom(lines, i + 1, Append(cur, lines[i]), acc)
Blocks(lines) == BlocksFrom(lines, 1, <<>>, <<>>)

Range(seq) == {seq[i] : i \in 1..Len(seq)}
CountIn(x, seq) == Cardinality({i \in 1..Len(seq) : seq[i] = x})
WithoutPlaceholder(body, placeholder) ==
    IF body = <<placeholder>> THEN <<>> ELSE body
OrPlaceholder(lines, placeholder) ==
    IF lines = <<>> THEN <<placeholder>> ELSE lines

\* The value of a string of decimal digits; -1 if it is not one.
RECURSIVE ParseDecimal(_)
ParseDecimal(ds) ==
    IF ds = <<>> \/ \E i \in 1..Len(ds) : ds[i] \notin Range(Digits) THEN -1
    ELSE LET d == (CHOOSE k \in 1..10 : Digits[k] = ds[Len(ds)]) - 1
         IN  IF Len(ds) = 1 THEN d
             ELSE 10 * ParseDecimal(SubSeq(ds, 1, Len(ds) - 1)) + d

(* The neighbor report, read back from the returned text. Logical lines    *)
(* are never blank, so the blank lines of the report delimit its blocks:   *)
(* top line, WAPs, Phone Handsets, sav switches, uplink, Unsorted, bottom. *)
ReportLines == LinesOf(report)
ReportBlocks == Blocks(ReportLines)
NeighborWellFormed(B) == Len(B) = 7

NoTopPlaceholder == <<"T","o","t","a","l"," ","c","d","p"," ","e","n","t","r","i","e","s"," ","d","i","s","p","l","a","y","e","d",":"," ","N","/","A">>
NoWapPlaceholder == <<"N","o"," ","W","A","P"," ","e","n","t","r","i","e","s"," ","f","o","u","n","d",".">>
NoPhonePlaceholder == <<"N","o"," ","p","h","o","n","e"," ","h","a","n","d","s","e","t"," ","e","n","t","r","i","e","s"," ","f","o","u","n","d",".">>
NoSavPlaceholder == <<"N","o"," ","s","a","v"," ","s","w","i","t","c","h"," ","e","n","t","r","i","e","s"," ","f","o","u","n","d",".">>
NoUplinkPlaceholder == <<"N","o"," ","u","p","l","i","n","k"," ","e","n","t","r","i","e","s"," ","f","o","u","n","d",".">>
NoUnsortedPlaceholder == <<"N","o"," ","u","n","s","o","r","t","e","d"," ","e","n","t","r","i","e","s"," ","f","o","u","n","d",".">>
NoBottomPlaceholder == <<"N","o"," ","b","o","t","t","o","m"," ","s","p","e","c","i","a","l"," ","l","i","n","e","s"," ","f","o","u","n","d",".">>
WapCountLabel == <<"T","o","t","a","l"," ","n","u","m","b","e","r"," ","o","f"," ","W","A","P","s",":"," ">>
PhoneCountLabel == <<"T","o","t","a","l"," ","n","u","m","b","e","r"," ","o","f"," ","P","h","o","n","e"," ","H","a","n","d","s","e","t","s",":"," ">>

Inner(block) == SubSeq(block, 2, Len(block) - 1)
ReportedTop(B) == WithoutPlaceholder(B[1], NoTopPlaceholder)
ReportedWaps(B) == WithoutPlaceholder(Inner(B[2]), NoWapPlaceholder)
ReportedPhones(B) == WithoutPlaceholder(Inner(B[3]), NoPhonePlaceholder)
ReportedSavs(B) == WithoutPlaceholder(Tail(B[4]), NoSavPlaceholder)
ReportedUplinks(B) == WithoutPlaceholder(Tail(B[5]), NoUplinkPlaceholder)
ReportedUnsorted(B) == WithoutPlaceholder(Tail(B[6]), NoUnsortedPlaceholder)
ReportedBottom(B) == WithoutPlaceholder(B[7], NoBottomPlaceholder)
ReportedEverywhere(B) ==
    ReportedTop(B) \o ReportedWaps(B) \o ReportedPhones(B) \o ReportedSavs(B)
        \o ReportedUplinks(B) \o ReportedUnsorted(B) \o ReportedBottom(B)

\* C1: each logical line produced by the line merger appears exactly once
\* in the report (top line, one of the five category sections, or bottom
\* lines): none is dropped, none is duplicated.
C1_EveryLogicalLineOnce ==
    pc = "cdp_done" =>
        LET B == ReportBlocks
            reported == ReportedEverywhere(B)
        IN  /\ NeighborWellFormed(B)
            /\ \A l \in Range(merged_lines) \cup Range(reported) :
                   CountIn(l, reported) = CountIn(l, merged_lines)

\* The keyword groups in precedence order, and the first group a line
\* matches (5: none, Unsorted).
KeywordGroups == <<sav_keywords, uplink_keywords, wap_models, <<phone_keyword>>>>
FirstMatch(line) ==
    LET hits == {g \in 1..4 : any_in(KeywordGroups[g], line)}
    IN  IF hits = {} THEN 5 ELSE SetMin(hits)
IsSpecialLine(line) ==
    \/ startswith(line, TotalMarker)
    \/ startswith(line, CapabilityMarker)
    \/ startswith(line, DeviceIdMarker)
MainLinesOf(lines) == SelectSeq(lines, LAMBDA l : ~IsSpecialLine(l))
ReportedGroup(B, g) ==
    CASE g = 1 -> ReportedSavs(B) [] g = 2 -> ReportedUplinks(B)
      [] g = 3 -> ReportedWaps(B) [] g = 4 -> ReportedPhones(B)
      [] g = 5 -> ReportedUnsorted(B)

\* C3: each main line is placed in exactly one category, the first it
\* matches in the order sav switches, uplink to distribution layer, WAPs,
\* Phone Handsets, else Unsorted (case-sensitive substring match); the same
\* line always gets the same category.
C3_FirstMatchPrecedence ==
    pc = "cdp_done" =>
        LET B == ReportBlocks
            main == MainLinesOf(merged_lines)
        IN  /\ NeighborWellFormed(B)
            /\ \A g \in 1..5 :
                   ReportedGroup(B, g) = SelectSeq(main, LAMBDA l : FirstMatch(l) = g)

C3_Witness ==
    /\ pc = "cdp_done"
    /\ \E i \in 1..Len(main_lines) :
           Cardinality({g \in 1..4 : any_in(KeywordGroups[g], main_lines[i])}) >= 2
    /\ ReportedUplinks(ReportBlocks) # <<>> /\ ReportedWaps(ReportBlocks) # <<>>

\* The count line of a counted block carries label and the decimal number
\* of lines of the block's section, 0 with the placeholder as body.
CountLineOk(block, label, placeholder, placed) ==
    LET last == block[Len(block)]
        n == ParseDecimal(SubSeq(last, Len(label) + 1, Len(last)))
    IN  /\ Len(block) >= 3
        /\ startswith(last, label)
        /\ WithoutPlaceholder(Inner(block), placeholder) = placed
        /\ n = Len(placed)
        /\ n = 0 => Inner(block) = <<placeholder>>

\* C4: the N of "Total number of WAPs: N" is the number of lines placed in
\* the WAPs section, the N of "Total number of Phone Handsets: N" that of
\* the Phone Handsets section; an empty section has count 0 and its
\* placeholder line as body.
C4_CountsMatchSections ==
    pc = "cdp_done" =>
        LET B == ReportBlocks
        IN  /\ NeighborWellFormed(B)
            /\ CountLineOk(B[2], WapCountLabel, NoWapPlaceholder, waps)
            /\ CountLineOk(B[3], PhoneCountLabel, NoPhonePlaceholder, phone_handsets)

C4_Witness ==
    /\ pc = "cdp_done"
    /\ Len(waps) = 2
    /\ phone_handsets = <<>>
    /\ ReportBlocks[3][Len(ReportBlocks[3])] = PhoneCountLabel \o <<"0">>

\* What a line of the layout must be: a given text, or a text with a given
\* beginning.
Exactly(text) == [kind |-> "exact", text |-> text]
Beginning(text) == [kind |-> "prefix", text |-> text]
ExactlyAll(lines) == [i \in 1..Len(lines) |-> Exactly(lines[i])]
Fits(line, pat) ==
    IF pat.kind = "exact" THEN line = pat.text ELSE startswith(line, pat.text)

\* The fixed layout of the neighbor report, line by line.
NeighborLayout ==
    <<Beginning(TotalMarker)>>
        \o ExactlyAll(<< <<>>, <<>> >>)
        \o ExactlyAll(<<<<"W","A","P","s",":">>>> \o OrPlaceholder(waps, NoWapPlaceholder))
        \o <<Beginning(WapCountLabel)>>
        \o ExactlyAll(<< <<>>, <<"P","h","o","n","e"," ","H","a","n","d","s","e","t","s",":">>>>
                          \o OrPlaceholder(phone_handsets, NoPhonePlaceholder))
        \o <<Beginning(PhoneCountLabel)>>
        \o ExactlyAll(<< <<>>, <<"s","a","v"," ","s","w","i","t","c","h","e","s",":">>>>
                          \o OrPlaceholder(sav_switches, NoSavPlaceholder))
        \o ExactlyAll(<< <<>>, <<"u","p","l","i","n","k"," ","t","o"," ","d","i","s","t","r","i","b","u","t","i","o","n"," ","l","a","y","e","r",":">>>>
                          \o OrPlaceholder(uplinks, NoUplinkPlaceholder))
        \o ExactlyAll(<< <<>>, <<"U","n","s","o","r","t","e","d",":">>>>
                          \o OrPlaceholder(unsorted, NoUnsortedPlaceholder))
        \o ExactlyAll(<< <<>>, <<>>, <<>> >>)
        \o ExactlyAll(OrPlaceholder(
               SelectSeq(merged_lines,
                         LAMBDA l : /\ ~startswith(l, TotalMarker)
                                    /\ \/ startswith(l, CapabilityMarker)
                                       \/ startswith(l, DeviceIdMarker)),
               NoBottomPlaceholder))

\* C10: the neighbor report is assembled in one fixed order: top line (a
\* "Total cdp entries displayed" line of the input, or the N/A line when
\* there is none), two blank lines, the sections WAPs, Phone Handsets, sav
\* switches, uplink to distribution layer, Unsorted, three blank lines, the
\* bottom lines in source order; every empty part carries its placeholder.
C10_FixedSectionOrder ==
    pc = "cdp_done" =>
        LET totals == SelectSeq(merged_lines, LAMBDA l : startswith(l, TotalMarker))
            L == ReportLines
            layout == NeighborLayout
        IN  /\ IF totals = <<>> THEN L[1] = NoTopPlaceholder
               ELSE L[1] \in Range(totals)
            /\ Len(L) = Len(layout)
            /\ \A i \in 1..Len(L) : Fits(L[i], layout[i])

C10_Witness ==
    /\ pc = "cdp_done"
    /\ top_line # None
    /\ bottom_lines # <<>>
    /\ sav_switches # <<>>
    /\ uplinks = <<>> /\ unsorted = <<>>
    /\ ReportLines[1] = top_line

----------------------------------------------------------------------------
(* process_mac_address_table.py: get_trunk_interfaces                      *)

PortHeader == <<"P","o","r","t">>

\* The loop of get_trunk_interfaces that also takes the header row's own
\* first token (the "continue" after header_found = True left out).
RECURSIVE trunk_from_keeping_header(_, _, _, _)
trunk_from_keeping_header(lines, i, header_found, trunk_list) ==
    IF i > Len(lines) THEN trunk_list
    ELSE LET line == lines[i]
         IN  IF ~header_found /\ ~startswith(strip(line), PortHeader)
             THEN trunk_from_keeping_header(lines, i + 1, FALSE, trunk_list)
             ELSE IF strip(line) = <<>>
             THEN trunk_from_keeping_header(lines, i + 1, TRUE, trunk_list)
             ELSE trunk_from_keeping_header(lines, i + 1, TRUE,
                                            Append(trunk_list, split(line)[1]))
get_trunk_interfaces_keeping_header(raw) ==
    trunk_from_keeping_header(splitlines(raw), 1, FALSE, <<>>)

\* for line in lines: the loop from line i on.
RECURSIVE trunk_from(_, _, _, _)
trunk_from(lines, i, header_found, trunk_list) ==
    IF i > Len(lines) THEN trunk_list
    ELSE LET line == lines[i]
             parts == split(line)
         IN  IF ~header_found
             THEN trunk_from(lines, i + 1,
                             startswith(strip(line), PortHeader), trunk_list)
             ELSE IF strip(line) = <<>>
             THEN trunk_from(lines, i + 1, header_found, trunk_list)
             ELSE IF parts # <<>>
             THEN trunk_from(lines, i + 1, header_found,
                             Append(trunk_list, parts[1]))
             ELSE trunk_from(lines, i + 1, header_found, trunk_list)

\* get_trunk_interfaces with header_found starting out True.
get_trunk_interfaces_without_header(raw) ==
    trunk_from(splitlines(raw), 1, TRUE, <<>>)

get_trunk_interfaces(raw) == trunk_from(splitlines(raw), 1, FALSE, <<>>)

\* Physical lines of a "show int trunk" output.
TrunkPhysicalLines ==
    { <<"P","o","r","t"," ","M","o","d","e">>,
      <<" ","P","o","r","t"," ","V","l","a","n","s">>,
      <<"G","i","8","/","1"," ","o","n">>,
      <<" ","P","o","1","\t","o","n"," ">>,
      <<"T","e","2","/","1">>,
      <<" ">>,
      <<>> }

InitTrunk ==
    /\ pc = "trunk_start"
    /\ \E lines \in SeqsUpTo(TrunkPhysicalLines, MaxTrunkLines) :
           raw_trunk_output = join(<<"\n">>, lines)
    /\ raw_mac_output = <<>>
    /\ trunk_interfaces = <<>> /\ trunk_check_set = {} /\ data_lines = <<>>
    /\ local_macs = <<>> /\ remote_macs = <<>>
    /\ IdleNorm /\ IdleCdp /\ IdleOut /\ IdleRun

\* get_trunk_interfaces(raw_trunk_output)
GetTrunkInterfaces ==
    /\ pc = "trunk_start"
    /\ trunk_interfaces' = get_trunk_interfaces(raw_trunk_output)
    /\ pc' = "trunk_done"
    /\ UNCHANGED <<raw_mac_output, raw_trunk_output, trunk_check_set, data_lines,
                   local_macs, remote_macs, normVars, runVars, cdpVars, outVars>>

NextTrunk == GetTrunkInterfaces
SpecTrunk == InitTrunk /\ [][NextTrunk]_vars

IsBlankLine(line) == \A i \in 1..Len(line) : isspace(line[i])
\* The header row: a line whose text, leading whitespace aside, begins
\* with "Port".
IsHeaderRow(line) ==
    \E k \in 0..Len(line) :
        /\ \A i \in 1..k : isspace(line[i])
        /\ startswith(SubSeq(line, k + 1, Len(line)), PortHeader)
\* The first and the last whitespace-delimited token of a non-blank line.
FirstToken(line) ==
    LET first == SetMin({i \in 1..Len(line) : ~isspace(line[i])})
        sp == {i \in first..Len(line) : isspace(line[i])}
    IN  SubSeq(line, first, IF sp = {} THEN Len(line) ELSE SetMin(sp) - 1)
LastToken(line) ==
    LET last == SetMax({i \in 1..Len(line) : ~isspace(line[i])})
        sp == {i \in 1..last : isspace(line[i])}
    IN  SubSeq(line, IF sp = {} THEN 1 ELSE SetMax(sp) + 1, last)

\* The first tokens of the non-blank lines after the first header row.
TokensAfterHeader(lines) ==
    LET headers == {i \in 1..Len(lines) : IsHeaderRow(lines[i])}
    IN  IF headers = {} THEN <<>>
        ELSE LET rows == Ascending({j \in (SetMin(headers) + 1)..Len(lines) :
                                        ~IsBlankLine(lines[j])})
             IN  [k \in 1..Len(rows) |-> FirstToken(lines[rows[k]])]

\* C9: get_trunk_interfaces discards every line up to and including the
\* header row and returns, in source order, the first whitespace-delimited
\* token of each subsequent non-blank line, and nothing else.
C9_TokensAfterHeaderOnly ==
    pc = "trunk_done" =>
        trunk_interfaces = TokensAfterHeader(LinesOf(raw_trunk_output))

C9_Witness ==
    /\ pc = "trunk_done"
    /\ LET lines == LinesOf(raw_trunk_output)
       IN  /\ Len(lines) = 3
           /\ ~IsBlankLine(lines[1]) /\ ~IsHeaderRow(lines[1])
           /\ IsHeaderRow(lines[2])
    /\ Len(trunk_interfaces) = 1

----------------------------------------------------------------------------
(* process_mac_address_table.py: process_mac_address_table                 *)

\* The check set built from the raw trunk names alone.
trunk_check_set_raw_only(trunks) == Range(trunks)

\* set(trunk_interfaces) | set(normalized_trunks)
trunk_check_set_of(trunks) ==
    Range(trunks) \cup {normalize_interface_name(trunks[i]) : i \in 1..Len(trunks)}

header_keywords == <<<<"M","a","c"," ","A","d","d","r","e","s","s">>, <<"V","l","a","n">>, <<"-","-","-","-">>>>
CpuKeyword == <<"C","P","U">>

\* The filter without its "CPU" test.
is_filtered_headers_only(line) == any_in(header_keywords, line)

\* The two "continue" tests of the filter loop.
is_filtered(line) ==
    any_in(header_keywords, line) \/ contains(CpuKeyword, line)

\* lines without the empty ones, then the filter loop.
filter_data_lines(raw_mac) ==
    LET lines == SelectSeq(splitlines(raw_mac), LAMBDA l : strip(l) # <<>>)
    IN  SelectSeq(lines, LAMBDA l : ~is_filtered(l))

\* "Separate lines based on the interface": the loop from line i on.
RECURSIVE separate_macs_from(_, _, _, _, _)
separate_macs_from(lines, i, check_set, local, remote) ==
    IF i > Len(lines) THEN [local_macs |-> local, remote_macs |-> remote]
    ELSE LET line == lines[i]
             parts == split(line)
         IN  IF parts = <<>>
             THEN separate_macs_from(lines, i + 1, check_set, local, remote)
             ELSE IF parts[Len(parts)] \in check_set
             THEN separate_macs_from(lines, i + 1, check_set, local,
                                     Append(remote, line))
             ELSE separate_macs_from(lines, i + 1, check_set,
                                     Append(local, line), remote)

separate_macs(lines, check_set) == separate_macs_from(lines, 1, check_set, <<>>, <<>>)

\* "Build the output": output_sections before the final join.
mac_output_sections(local, remote) ==
    <<<<"l","o","c","a","l"," ","m","a","c"," ","a","d","d","r","e","s","s","e","s",":">>>>
        \o (IF local # <<>> THEN local ELSE <<<<"N","o"," ","l","o","c","a","l"," ","m","a","c"," ","a","d","d","r","e","s","s","e","s"," ","f","o","u","n","d",".">>>>)
        \o <<<<"\n","r","e","m","o","t","e","l","y"," ","l","e","a","r","n","e","d"," ","m","a","c"," ","a","d","d","r","e","s","s","e","s",":">>>>
        \o (IF remote # <<>> THEN remote
            ELSE <<<<"N","o"," ","r","e","m","o","t","e","l","y"," ","l","e","a","r","n","e","d"," ","m","a","c"," ","a","d","d","r","e","s","s","e","s"," ","f","o","u","n","d",".">>>>)

\* Physical lines of a "show mac address-table" output.
MacPhysicalLines ==
    { <<"1"," ","a","a"," ","G","i","8","/","1">>,
      <<"1"," ","b","b"," ","G","i","g","a","b","i","t","E","t","h","e","r","n","e","t","8","/","1">>,
      <<" ","3"," ","d","d"," ","F","a","0","/","2"," ">>,
      <<"A","l","l"," ","e","e"," ","C","P","U">>,
      <<"V","l","a","n"," ","M","a","c"," ","A","d","d","r","e","s","s">>,
      <<"-","-","-","-">>,
      <<" ">> }

\* "show int trunk" outputs handed in with the MAC table: empty, without
\* header row, and with abbreviated and canonical names under a header.
MacTrunkOutputs ==
    { <<>>,
      <<"G","i","8","/","1"," ","o","n">>,
      <<"P","o","r","t"," ","M","o","d","e","\n","G","i","8","/","1"," ","o","n">>,
      <<"P","o","r","t"," ","M","o","d","e","\n","F","a","0","/","2"," ","o","n","\n","\n","P","o","r","t"," ","V","l","a","n","s","\n","F","a","0","/","2"," ","1">>,
      <<"P","o","r","t"," ","M","o","d","e","\n","G","i","g","a","b","i","t","E","t","h","e","r","n","e","t","8","/","1"," ","o","n">> }

InitMac ==
    /\ pc = "mac_start"
    /\ \E lines \in SeqsUpTo(MacPhysicalLines, MaxMacLines) :
           raw_mac_output = join(<<"\n">>, lines)
    /\ raw_trunk_output \in MacTrunkOutputs
    /\ trunk_interfaces = <<>> /\ trunk_check_set = {} /\ data_lines = <<>>
    /\ local_macs = <<>> /\ remote_macs = <<>>
    /\ IdleNorm /\ IdleCdp /\ IdleOut /\ IdleRun

\* trunk_interfaces, normalized_trunks, trunk_check_set
MacTrunkCheckSet ==
    /\ pc = "mac_start"
    /\ trunk_interfaces' = get_trunk_interfaces(raw_trunk_output)
    /\ trunk_check_set' = trunk_check_set_of(trunk_interfaces')
    /\ pc' = "mac_trunks"
    /\ UNCHANGED <<raw_mac_output, raw_trunk_output, data_lines,
                   local_macs, remote_macs, normVars, runVars, cdpVars, outVars>>

\* lines, data_lines
MacFilter ==
    /\ pc = "mac_trunks"
    /\ data_lines' = filter_data_lines(raw_mac_output)
    /\ pc' = "mac_filtered"
    /\ UNCHANGED <<raw_mac_output, raw_trunk_output, trunk_interfaces,
                   trunk_check_set, local_macs, remote_macs,
                   normVars, runVars, cdpVars, outVars>>

\* local_macs, remote_macs
MacSeparate ==
    /\ pc = "mac_filtered"
    /\ LET r == separate_macs(data_lines, trunk_check_set)
       IN  /\ local_macs' = r.local_macs
           /\ remote_macs' = r.remote_macs
    /\ pc' = "mac_separated"
    /\ UNCHANGED <<raw_mac_output, raw_trunk_output, trunk_interfaces,
                   trunk_check_set, data_lines, normVars, runVars, cdpVars, outVars>>

\* output_sections, and return "\n".join(output_sections)
MacAssemble ==
    /\ pc = "mac_separated"
    /\ output_sections' = mac_output_sections(local_macs, remote_macs)
    /\ report' = join(<<"\n">>, output_sections')
    /\ pc' = "mac_done"
    /\ UNCHANGED <<macVars, normVars, runVars, cdpVars>>

NextMac == MacTrunkCheckSet \/ MacFilter \/ MacSeparate \/ MacAssemble
SpecMac == InitMac /\ [][NextMac]_vars

(* The MAC report, read back from the returned text. Data lines are never  *)
(* blank, so the one blank line of the report separates its two blocks.    *)
LocalHeading == <<"l","o","c","a","l"," ","m","a","c"," ","a","d","d","r","e","s","s","e","s",":">>
RemoteHeading == <<"r","e","m","o","t","e","l","y"," ","l","e","a","r","n","e","d"," ","m","a","c"," ","a","d","d","r","e","s","s","e","s",":">>
NoLocalPlaceholder == <<"N","o"," ","l","o","c","a","l"," ","m","a","c"," ","a","d","d","r","e","s","s","e","s"," ","f","o","u","n","d",".">>
NoRemotePlaceholder == <<"N","o"," ","r","e","m","o","t","e","l","y"," ","l","e","a","r","n","e","d"," ","m","a","c"," ","a","d","d","r","e","s","s","e","s"," ","f","o","u","n","d",".">>

MacWellFormed(B) ==
    /\ Len(B) = 2
    /\ Len(B[1]) >= 2 /\ B[1][1] = LocalHeading
    /\ Len(B[2]) >= 2 /\ B[2][1] = RemoteHeading
ReportedLocal(B) == WithoutPlaceholder(Tail(B[1]), NoLocalPlaceholder)
ReportedRemote(B) == WithoutPlaceholder(Tail(B[2]), NoRemotePlaceholder)

\* Noise: a blank line, or a line containing one of the four substrings.
NoiseSubstrings == {<<"M","a","c"," ","A","d","d","r","e","s","s">>, <<"V","l","a","n">>, <<"-","-","-","-">>, <<"C","P","U">>}
IsNoise(line) ==
    IsBlankLine(line) \/ \E n \in NoiseSubstrings : contains(n, line)
RetainedLines(raw_mac) == SelectSeq(LinesOf(raw_mac), LAMBDA l : ~IsNoise(l))

\* C5: a retained data line is remote if and only if its last
\* whitespace-delimited token is in the set of the raw identifiers returned
\* by the trunk extractor and the normalized form of each; otherwise local.
C5_RemoteIffLastTokenInSet ==
    pc = "mac_done" =>
        LET B == ReportBlocks
            retained == RetainedLines(raw_mac_output)
            members == Range(trunk_interfaces)
                           \cup {normalize_interface_name(t) : t \in Range(trunk_interfaces)}
        IN  /\ MacWellFormed(B)
            /\ \A i \in 1..Len(retained) :
                   /\ retained[i] \in Range(ReportedRemote(B))
                          <=> LastToken(retained[i]) \in members
                   /\ retained[i] \in Range(ReportedLocal(B))
                          <=> LastToken(retained[i]) \notin members

\* A trunk entry "Gi8/1" makes the line ending "Gi8/1" and the line ending
\* "GigabitEthernet8/1" remote.
C5_Witness ==
    /\ pc = "mac_done"
    /\ trunk_interfaces = <<<<"G","i","8","/","1">>>>
    /\ ReportedRemote(ReportBlocks) = <<<<"1"," ","a","a"," ","G","i","8","/","1">>, <<"1"," ","b","b"," ","G","i","g","a","b","i","t","E","t","h","e","r","n","e","t","8","/","1">>>>

\* C6: blank lines and lines containing "Mac Address", "Vlan", "----" or
\* "CPU" are in neither section; every other input line is exactly once, in
\* source order, in exactly one of the two sections; local count plus
\* remote count is the number of non-noise lines.
C6_NoiseDroppedRestOnce ==
    pc = "mac_done" =>
        LET B == ReportBlocks
            retained == RetainedLines(raw_mac_output)
            local == ReportedLocal(B)
            remote == ReportedRemote(B)
        IN  /\ MacWellFormed(B)
            /\ \A l \in Range(LinesOf(raw_mac_output)) \cup Range(local \o remote) :
                   CountIn(l, local \o remote) = CountIn(l, retained)
            /\ local = SelectSeq(retained, LAMBDA l : l \in Range(local))
            /\ remote = SelectSeq(retained, LAMBDA l : l \in Range(remote))
            /\ Len(local) + Len(remote) = Len(retained)

C6_Witness ==
    /\ pc = "mac_done"
    /\ \E l \in Range(LinesOf(raw_mac_output)) : contains(<<"C","P","U">>, l)
    /\ ReportedLocal(ReportBlocks) # <<>>
    /\ ReportedRemote(ReportBlocks) # <<>>

\* The trunk input has no header row (an empty input has none).
NoHeaderRow(raw_trunk) ==
    \A i \in 1..Len(LinesOf(raw_trunk)) : ~IsHeaderRow(LinesOf(raw_trunk)[i])

\* C7: with an empty or header-less trunk input the builder raises no
\* error (it is at one of its own positions, each with a total next step,
\* until it returns), every retained data line is in the local section and
\* the remote section is exactly its placeholder; in every report the local
\* section precedes the remote section.
C7_NoHeaderAllLocal ==
    /\ pc \in {"mac_start", "mac_trunks", "mac_filtered", "mac_separated", "mac_done"}
    /\ pc = "mac_done" =>
          LET L == ReportLines
              B == Blocks(L)
          IN  /\ MacWellFormed(B)
              /\ L[1] = LocalHeading
              /\ L[Len(B[1]) + 2] = RemoteHeading
              /\ NoHeaderRow(raw_trunk_output) =>
                     /\ ReportedLocal(B) = RetainedLines(raw_mac_output)
                     /\ B[2] = <<RemoteHeading, NoRemotePlaceholder>>

C7_Witness ==
    /\ pc = "mac_done"
    /\ raw_trunk_output = <<"G","i","8","/","1"," ","o","n">>
    /\ ReportedLocal(ReportBlocks) = <<<<"1"," ","a","a"," ","G","i","8","/","1">>, <<" ","3"," ","d","d"," ","F","a","0","/","2"," ">>>>

----------------------------------------------------------------------------
(* Cisco Collect.py: run_commands                                          *)

\* process_cdp_neighbors(raw_output): the four steps in one.
process_cdp_neighbors(raw) ==
    LET merged == nested_merge_wrapped_lines(raw)
        special == separate_special_lines(merged)
        b == classify_main_lines(special.main_lines)
    IN  join(<<"\n">>,
             neighbor_output_sections(special.top_line, b.waps, b.phone_handsets,
                                      b.sav_switches, b.uplinks, b.unsorted,
                                      special.bottom_lines))

\* process_mac_address_table(raw_mac_output, raw_trunk_output): the four
\* steps in one.
process_mac_address_table(raw_mac, raw_trunk) ==
    LET check_set == trunk_check_set_of(get_trunk_interfaces(raw_trunk))
        r == separate_macs(filter_data_lines(raw_mac), check_set)
    IN  join(<<"\n">>, mac_output_sections(r.local_macs, r.remote_macs))

commands == <<
    <<"s","h","o","w"," ","v","l","a","n">>,
    <<"s","h","o","w"," ","a","u","t","h"," ","s","e","s","s","i","o","n","s">>,
    <<"p","r","o","c","e","s","s","_","c","d","p","_","n","e","i","g","h","b","o","r","s">>,
    <<"f","i","l","t","e","r","_","i","n","t","_","s","t","a","t","u","s","_","1","0","m","b">>,
    <<"p","r","o","c","e","s","s","_","m","a","c","_","a","d","d","r","e","s","s","_","t","a","b","l","e">>,
    <<"s","h"," ","r","u","n","n","i","n","g","-","c","o","n","f","i","g">> >>

CdpMarker == <<"p","r","o","c","e","s","s","_","c","d","p","_","n","e","i","g","h","b","o","r","s">>
FilterMarker == <<"f","i","l","t","e","r","_","i","n","t","_","s","t","a","t","u","s","_","1","0","m","b">>
MacMarker == <<"p","r","o","c","e","s","s","_","m","a","c","_","a","d","d","r","e","s","s","_","t","a","b","l","e">>
TenMbKeyword == <<"a","-","1","0"," ">>

special_command_names == <<
    <<<<"f","i","l","t","e","r","_","i","n","t","_","s","t","a","t","u","s","_","1","0","m","b">>, <<"1","0","m","b","_","i","n","t","e","r","f","a","c","e","s">>>>,
    <<<<"p","r","o","c","e","s","s","_","c","d","p","_","n","e","i","g","h","b","o","r","s">>, <<"c","d","p","_","n","e","i","g","h","b","o","r","s","_","p","r","o","c","e","s","s","e","d">>>>,
    <<<<"p","r","o","c","e","s","s","_","m","a","c","_","a","d","d","r","e","s","s","_","t","a","b","l","e">>, <<"m","a","c","_","a","d","d","r","e","s","s","_","t","a","b","l","e","_","p","r","o","c","e","s","s","e","d">>>> >>

\* str.replace(old, new) for a one-character old.
RECURSIVE replace(_, _, _)
replace(s, old, new) ==
    IF s = <<>> THEN <<>>
    ELSE (IF s[1] = old THEN new ELSE <<s[1]>>) \o replace(Tail(s), old, new)

\* The filename portion of a command.
command_filename(command) ==
    IF \E k \in 1..Len(special_command_names) : special_command_names[k][1] = command
    THEN special_command_names[
             CHOOSE k \in 1..Len(special_command_names) :
                 special_command_names[k][1] = command][2]
    ELSE replace(replace(replace(command, " ", <<"_">>), "/", <<"_">>), "|", <<>>)

\* The host name entered and the date of the run, the same for every file
\* of a run.
Hostname == <<"s","w","1">>
DateStr == <<"2","0","2","6","0","1","0","1">>

\* f"{hostname}_{date_str}_{command_filename}.txt"
filename(command) ==
    Hostname \o <<"_">> \o DateStr \o <<"_">> \o command_filename(command) \o <<".","t","x","t">>

\* The command strings send_command is called with for a command, in order.
sends_for(command) ==
    IF command = CdpMarker THEN <<<<"s","h","o","w"," ","c","d","p"," ","n","e","i","g","h","b","o","r","s">>>>
    ELSE IF command = FilterMarker THEN <<<<"s","h","o","w"," ","i","n","t"," ","s","t","a","t","u","s">>>>
    ELSE IF command = MacMarker THEN <<<<"s","h","o","w"," ","i","n","t"," ","t","r","u","n","k">>, <<"s","h","o","w"," ","m","a","c"," ","a","d","d","r","e","s","s","-","t","a","b","l","e">>>>
    ELSE <<command>>

\* The dispatch with the two raw texts handed to the MAC builder in the
\* order they were fetched.
command_output_trunk_as_mac(command, raws) ==
    IF command = CdpMarker THEN process_cdp_neighbors(raws[1])
    ELSE IF command = FilterMarker
    THEN join(<<"\n">>, SelectSeq(splitlines(raws[1]),
                                 LAMBDA line : contains(TenMbKeyword, line)))
    ELSE IF command = MacMarker THEN process_mac_address_table(raws[1], raws[2])
    ELSE raws[1]

\* "Process commands based on marker": output from the raw texts received.
command_output(command, raws) ==
    IF command = CdpMarker THEN process_cdp_neighbors(raws[1])
    ELSE IF command = FilterMarker
    THEN join(<<"\n">>, SelectSeq(splitlines(raws[1]),
                                 LAMBDA line : contains(TenMbKeyword, line)))
    ELSE IF command = MacMarker THEN process_mac_address_table(raws[2], raws[1])
    ELSE raws[1]

\* What the switch may answer to a command string.
DeviceResponses(sent) ==
    IF sent = <<"s","h","o","w"," ","c","d","p"," ","n","e","i","g","h","b","o","r","s">> THEN {<<"H","D","S"," ","A","I","R","-","A","P">>, <<"D","e","v","i","c","e"," ","I","D","\n","S","E","P"," ","T","3","3">>}
    ELSE IF sent = <<"s","h","o","w"," ","i","n","t"," ","s","t","a","t","u","s">> THEN {<<"G","i","1"," ","a","-","1","0"," ","x","\n","G","i","2"," ","a","-","1","0","0">>, <<"G","i","3"," ","a","-","1","0"," ">>}
    ELSE IF sent = <<"s","h","o","w"," ","i","n","t"," ","t","r","u","n","k">> THEN {<<>>, <<"P","o","r","t"," ","M","o","d","e","\n","G","i","8","/","1"," ","o","n">>}
    ELSE IF sent = <<"s","h","o","w"," ","m","a","c"," ","a","d","d","r","e","s","s","-","t","a","b","l","e">> THEN {<<"1"," ","a","a"," ","G","i","8","/","1">>, <<"A","l","l"," ","e","e"," ","C","P","U","\n","2"," ","b","b"," ","F","a","0","/","2">>}
    ELSE {<<"1"," ","d","e","f","a","u","l","t">>, <<>>}

\* A file of the output directory with the given content.
WithFile(fs, name, content) ==
    [n \in DOMAIN fs \cup {name} |-> IF n = name THEN content ELSE fs[n]]

InitRun ==
    /\ pc = "run_start"
    /\ fields_filled \in BOOLEAN
    /\ use_ssh_value \in BOOLEAN
    /\ device = "none" /\ net_connect = "none" /\ command_index = 0
    /\ responses = <<>> /\ output = <<>> /\ device_log = <<>>
    /\ file_system = <<>> /\ output_files = <<>>
    /\ exception = "none" /\ messagebox = "none"
    /\ IdleNorm /\ IdleCdp /\ IdleMac /\ IdleOut

\* The input check and the device dictionary.
RunValidate ==
    /\ pc = "run_start"
    /\ IF ~fields_filled
       THEN /\ messagebox' = "Input Error"
            /\ pc' = "run_end"
            /\ UNCHANGED device
       ELSE /\ device' = IF use_ssh_value THEN "cisco_ios" ELSE "cisco_ios_telnet"
            /\ pc' = "run_connect"
            /\ UNCHANGED messagebox
    /\ UNCHANGED <<fields_filled, use_ssh_value, net_connect, command_index,
                   responses, output, device_log, file_system, output_files,
                   exception, normVars, cdpVars, macVars, outVars>>

\* net_connect = ConnectHandler(**device): a session, or an exception.
RunConnect ==
    /\ pc = "run_connect"
    /\ \E result \in {"ok", "actively refused", "timed out"} :
           IF result = "ok"
           THEN /\ net_connect' = "connected"
                /\ command_index' = 1
                /\ pc' = "run_send"
                /\ UNCHANGED exception
           ELSE /\ exception' = result
                /\ pc' = "run_except"
                /\ UNCHANGED <<net_connect, command_index>>
    /\ UNCHANGED <<fields_filled, use_ssh_value, device, responses, output,
                   device_log, file_system, output_files, messagebox,
                   normVars, cdpVars, macVars, outVars>>

\* One net_connect.send_command(...) of the current command: the raw text,
\* or an exception; after the command's last one, output is computed.
\* device_log is the switch's side of the session: every command string it
\* was sent, and the raw text it answered with.
RunSendCommand ==
    /\ pc = "run_send"
    /\ LET command == commands[command_index]
           todo == sends_for(command)
           sent == todo[Len(responses) + 1]
       IN  \/ \E raw \in DeviceResponses(sent) :
                  /\ device_log' = Append(device_log,
                         [sent |-> sent, answered |-> TRUE, raw |-> raw])
                  /\ responses' = Append(responses, raw)
                  /\ IF Len(responses') = Len(todo)
                     THEN /\ output' = command_output(command, responses')
                          /\ pc' = "run_write"
                     ELSE /\ pc' = "run_send"
                          /\ UNCHANGED output
                  /\ UNCHANGED exception
           \/ /\ device_log' = Append(device_log,
                      [sent |-> sent, answered |-> FALSE, raw |-> <<>>])
              /\ exception' = "timed out"
              /\ pc' = "run_except"
              /\ UNCHANGED <<responses, output>>
    /\ UNCHANGED <<fields_filled, use_ssh_value, device, net_connect,
                   command_index, file_system, output_files, messagebox,
                   normVars, cdpVars, macVars, outVars>>

\* with open(file_path, "w") as file: file.write(output), then
\* output_files.append(file_path); open or write may raise.
RunWriteFile ==
    /\ pc = "run_write"
    /\ LET name == filename(commands[command_index])
       IN  \/ /\ file_system' = WithFile(file_system, name, output)
              /\ output_files' = Append(output_files, name)
              /\ responses' = <<>>
              /\ IF command_index = Len(commands)
                 THEN pc' = "run_disconnect" /\ UNCHANGED command_index
                 ELSE pc' = "run_send" /\ command_index' = command_index + 1
              /\ UNCHANGED exception
           \/ /\ exception' = "permission denied"
              /\ pc' = "run_except"
              /\ UNCHANGED <<file_system, output_files, responses, command_index>>
           \/ /\ file_system' = WithFile(file_system, name, <<>>)
              /\ exception' = "no space left"
              /\ pc' = "run_except"
              /\ UNCHANGED <<output_files, responses, command_index>>
    /\ UNCHANGED <<fields_filled, use_ssh_value, device, net_connect, output,
                   device_log, messagebox, normVars, cdpVars, macVars, outVars>>

\* net_connect.disconnect() and the success dialog, after the loop.
RunDisconnect ==
    /\ pc = "run_disconnect"
    /\ net_connect' = "disconnected"
    /\ messagebox' = "Success"
    /\ pc' = "run_end"
    /\ UNCHANGED <<fields_filled, use_ssh_value, device, command_index,
                   responses, output, device_log, file_system, output_files,
                   exception, normVars, cdpVars, macVars, outVars>>

\* except Exception as e: the error dialog.
RunExcept ==
    /\ pc = "run_except"
    /\ messagebox' = IF ~use_ssh_value /\ exception = "actively refused"
                     THEN "Error, try SSH" ELSE "Error"
    /\ pc' = "run_end"
    /\ UNCHANGED <<fields_filled, use_ssh_value, device, net_connect,
                   command_index, responses, output, device_log, file_system,
                   output_files, exception, normVars, cdpVars, macVars, outVars>>

NextRun ==
    \/ RunValidate \/ RunConnect \/ RunSendCommand
    \/ RunWriteFile \/ RunDisconnect \/ RunExcept
SpecRun == InitRun /\ [][NextRun]_vars

\* The exchanges of the k-th command of the sequence in device_log.
ExchangesBefore(k) ==
    LET RECURSIVE upto(_)
        upto(j) == IF j = 0 THEN 0 ELSE upto(j - 1) + Len(sends_for(commands[j]))
    IN  upto(k - 1)
SentOf(k) ==
    [i \in 1..Len(sends_for(commands[k])) |-> device_log[ExchangesBefore(k) + i].sent]
RawsOf(k) ==
    [i \in 1..Len(sends_for(commands[k])) |-> device_log[ExchangesBefore(k) + i].raw]
PersistedText(k) == file_system[output_files[k]]
TenMbLinesOf(raw) ==
    join(<<"\n">>, SelectSeq(splitlines(raw), LAMBDA line : contains(TenMbKeyword, line)))

\* C11 (as stated): the text persisted for every command is its raw text
\* unchanged, or the Neighbor Report Builder's result for it, or the MAC Table
\* Report Builder's result for a MAC table and the trunk listing fetched
\* before it; no raw text is transformed in any other way.
C11_OneOfThreePaths ==
    \A k \in 1..Len(output_files) :
        LET raws == RawsOf(k)
        IN  \/ Len(raws) = 1 /\ PersistedText(k) = raws[1]
            \/ Len(raws) = 1 /\ PersistedText(k) = process_cdp_neighbors(raws[1])
            \/ /\ Len(raws) = 2
               /\ SentOf(k) = <<<<"s","h","o","w"," ","i","n","t"," ","t","r","u","n","k">>, <<"s","h","o","w"," ","m","a","c"," ","a","d","d","r","e","s","s","-","t","a","b","l","e">>>>
               /\ PersistedText(k) = process_mac_address_table(raws[2], raws[1])

\* C11 (amended): every command of the sequence is handled by exactly one of
\* four paths, fixed by the command: the neighbor marker persists the
\* Neighbor Report Builder's result for "show cdp neighbors"; the MAC marker
\* persists the MAC Table Report Builder's result, the trunk listing fetched
\* before the MAC table; the 10 Mb marker persists the lines of
\* "show int status" that contain "a-10 ", joined by newlines; every other
\* command persists its raw text unchanged.
C11_OneOfFourPaths ==
    \A k \in 1..Len(output_files) :
        LET command == commands[k]
            raws == RawsOf(k)
        IN  /\ output_files[k] = filename(command)
            /\ IF command = CdpMarker
               THEN /\ SentOf(k) = <<<<"s","h","o","w"," ","c","d","p"," ","n","e","i","g","h","b","o","r","s">>>>
                    /\ PersistedText(k) = process_cdp_neighbors(raws[1])
               ELSE IF command = MacMarker
               THEN /\ SentOf(k) = <<<<"s","h","o","w"," ","i","n","t"," ","t","r","u","n","k">>, <<"s","h","o","w"," ","m","a","c"," ","a","d","d","r","e","s","s","-","t","a","b","l","e">>>>
                    /\ PersistedText(k) = process_mac_address_table(raws[2], raws[1])
               ELSE IF command = FilterMarker
               THEN /\ SentOf(k) = <<<<"s","h","o","w"," ","i","n","t"," ","s","t","a","t","u","s">>>>
                    /\ PersistedText(k) = TenMbLinesOf(raws[1])
               ELSE /\ SentOf(k) = <<command>>
                    /\ PersistedText(k) = raws[1]

\* A whole run whose 10 Mb file differs from the raw text and whose MAC
\* report depends on which text is the trunk listing.
C11_Witness ==
    /\ pc = "run_end"
    /\ Len(output_files) = Len(commands)
    /\ PersistedText(4) # RawsOf(4)[1]
    /\ RawsOf(5) = <<<<"P","o","r","t"," ","M","o","d","e","\n","G","i","8","/","1"," ","o","n">>, <<"1"," ","a","a"," ","G","i","8","/","1">>>>
    /\ PersistedText(3) # RawsOf(3)[1]

\* The run has ended through the exception handler after a session was
\* established.
FailedPartWay == pc = "run_end" /\ exception # "none" /\ command_index >= 1

\* Nothing was sent after the exchange that failed, nor after a failed write.
NoLaterCommandIssued ==
    /\ \A i \in 1..(Len(device_log) - 1) : device_log[i].answered
    /\ Len(device_log) <= ExchangesBefore(command_index + 1)

\* The files of the commands completed before the failure are still there,
\* with the text that was written.
CompletedFilesRemain ==
    /\ Len(output_files) = command_index - 1
    /\ \A k \in 1..Len(output_files) :
           /\ output_files[k] = filename(commands[k])
           /\ output_files[k] \in DOMAIN file_system
           /\ PersistedText(k) = command_output(commands[k], RawsOf(k))

\* C12: when the run has ended, a session that run_commands established has
\* been disconnected, also when a command or a file write raised part-way
\* through the command sequence; after such a failure no later command was
\* issued and the files of the commands already completed remain written.
C12_SessionDisconnectedAtRunEnd ==
    /\ pc = "run_end" => net_connect # "connected"
    /\ FailedPartWay => NoLaterCommandIssued /\ CompletedFilesRemain

=============================================================================
